---- MODULE Spec2Model ----
(***************************************************************************)
(* A model of fission's volume.go: the /dev/fuse channel of one volume.    *)
(*                                                                         *)
(*   DoMount / DoUnmount       the owner's calls (one owner thread)        *)
(*   devFuseFDReader           the read pump, one goroutine per DoMount    *)
(*   processDevFuseFDReadBuf   one dispatch goroutine per frame read       *)
(*   devFuseFDWriter           the response encoder and its writev         *)
(*   devFuseFDReadPool         the sync.Pool of read buffers               *)
(*                                                                         *)
(* The kernel side (the descriptors, the FUSE connections, the mount       *)
(* stack of the mountpoint) is the environment: every syscall's outcome is *)
(* a choice among the outcomes Linux can give in the state at hand.        *)
(***************************************************************************)
EXTENDS Integers, Sequences, FiniteSets, TLC

\* ---------------------------------------------------------------- bounds

\* DoMount calls the owner makes (one descriptor and one pump per call).
MaxMounts == 2
\* Frames the kernel delivers over the whole run.
MaxFrames == 2
\* "operation not permitted" read results on a descriptor that is still open.
MaxRetries == 2

\* ------------------------------------------------------ program constants

InHeaderSize == 40
OutHeaderSize == 16
WriteInFixedPortionSize == 40
initOutMaxWrite == 4096
ENOSYS == 38
ENOENT == 2

devFuseFDReadSize == InHeaderSize + WriteInFixedPortionSize + initOutMaxWrite

\* The opcodes processDevFuseFDReadBuf's switch has a case for (the values
\* are those of the FUSE kernel ABI: no IOCTL (39), no NOTIFY_REPLY (41)).
KnownOpCodes == ((1..6) \cup (8..18) \cup (20..38) \cup {40} \cup (42..46))

OpCodeLookup == 1
\* An opcode the switch has no case for (FUSE_IOCTL).
UnknownOpCode == 39

\* The strings syscall.Errno.Error() gives.
EPERMText == "operation not permitted"
ENODEVText == "no such device"
EBADFText == "bad file descriptor"
EIOText == "input/output error"

\* ------------------------------------------------------------ byte layout

Byte(n, i) == (n \div (256 ^ i)) % 256

\* A uint32 below 2^31 in the machine's (little-endian) layout.
U32LE(n) == << Byte(n, 0), Byte(n, 1), Byte(n, 2), Byte(n, 3) >>

\* The uint32 at four bytes (values below 2^31).
DecodeU32(b) == b[1] + 256 * b[2] + 65536 * b[3] + 16777216 * b[4]

\* -int32(errno) as the four bytes of an int32: two's complement.
NegI32LE(errno) ==
    IF errno = 0 THEN << 0, 0, 0, 0 >>
    ELSE [ i \in 1..4 |-> 255 - Byte(errno - 1, i - 1) ]

\* A byte count as << hi, lo >>, hi * 65536 + lo: a uintptr may pass 2^32.
Limb == 256 * 256
SizeOf(n) == << n \div Limb, n % Limb >>
SizeAdd(a, b) ==
    << a[1] + b[1] + ((a[2] + b[2]) \div Limb), (a[2] + b[2]) % Limb >>
\* uint32(size): the low 32 bits, as bytes.
SizeU32LE(s) ==
    << s[2] % 256, s[2] \div 256, s[1] % 256, (s[1] \div 256) % 256 >>

RECURSIVE SumSizes(_)
SumSizes(lens) ==
    IF lens = << >> THEN SizeOf(0)
    ELSE SizeAdd(lens[1], SumSizes(Tail(lens)))

Zeros(n) == [ i \in 1..n |-> 0 ]

\* ----------------------------------------------------------------- frames

Mounts == 1..MaxMounts
Units == 1..MaxFrames
\* Never more buffers alive than frames read plus pumps reading.
BufIds == 1..(MaxFrames + MaxMounts)
BadFd == -1

\* What one successful read can deliver: the bytes read and, when the frame
\* holds a header, its opcode.
FrameKinds ==
    { [n |-> 0, op |-> 0],
      [n |-> InHeaderSize - 1, op |-> OpCodeLookup],
      [n |-> InHeaderSize + 8, op |-> OpCodeLookup],
      [n |-> InHeaderSize, op |-> UnknownOpCode] }

\* A frame that fills the read buffer to its capacity.
FullFrame == [n |-> devFuseFDReadSize, op |-> OpCodeLookup]
AllFrameKinds == FrameKinds \cup {FullFrame}

\* The kernel's request identifier of the u-th frame, a uint64 in memory.
UniqueOf(u) == << 2 * u, 17, 0, 0, 3, 0, 0, 128 + u >>
NodeIDOf(u) == << u, 0, 0, 0, 0, 0, 0, 1 >>

\* The request header the kernel writes for the u-th frame.
FrameHeader(u, kind) ==
    U32LE(kind.n) \o U32LE(kind.op) \o UniqueOf(u) \o NodeIDOf(u)
        \o U32LE(1000) \o U32LE(100) \o U32LE(4242) \o Zeros(4)

\* The header bytes a read of the u-th frame leaves in the buffer.
FrameBytes(u, kind) ==
    SubSeq(FrameHeader(u, kind), 1,
           IF kind.n < InHeaderSize THEN kind.n ELSE InHeaderSize)

\* inHeader = &InHeader{...}: the fields at their offsets in the buffer.
DecodeInHeader(b) ==
    [ Len     |-> DecodeU32(SubSeq(b, 1, 4)),
      OpCode  |-> DecodeU32(SubSeq(b, 5, 8)),
      Unique  |-> SubSeq(b, 9, 16),
      NodeID  |-> SubSeq(b, 17, 24),
      UID     |-> DecodeU32(SubSeq(b, 25, 28)),
      GID     |-> DecodeU32(SubSeq(b, 29, 32)),
      PID     |-> DecodeU32(SubSeq(b, 33, 36)),
      Padding |-> DecodeU32(SubSeq(b, 37, 40)) ]

\* OutHeader with Unique stored through a uint32 pointer: its upper half is
\* left zero.
OutHeaderUnique32(inHeader, errno, bufLens) ==
    SizeU32LE(SizeAdd(SumSizes(bufLens), SizeOf(OutHeaderSize)))
        \o NegI32LE(errno) \o SubSeq(inHeader.Unique, 1, 4) \o Zeros(4)

\* outHeader as devFuseFDWriter fills it: uint32(iovecSpan), -int32(errno),
\* inHeader.Unique.
OutHeader(inHeader, errno, bufLens) ==
    SizeU32LE(SizeAdd(SumSizes(bufLens), SizeOf(OutHeaderSize)))
        \o NegI32LE(errno) \o inHeader.Unique

\* iovecSpan: the bytes handed to writev.
IovecSpan(bufLens) == SizeAdd(SumSizes(bufLens), SizeOf(OutHeaderSize))

\* What a handler of the Callbacks interface answers with: an errno and
\* the payload segments (their lengths) it passes to devFuseFDWriter.
HandlerReplies ==
    { [errno |-> 0, bufs |-> << >>],
      [errno |-> 0, bufs |-> << SizeOf(8) >>],
      [errno |-> ENOENT, bufs |-> << >>] }

\* Answers that strain the encoder: an empty segment, alone or after
\* another, two segments, and two segments of 2^31 bytes each.
HugeSeg == << Limb \div 2, 0 >>
PayloadReplies ==
    { [errno |-> 0, bufs |-> << SizeOf(0) >>],
      [errno |-> 0, bufs |-> << SizeOf(8), SizeOf(0) >>],
      [errno |-> 0, bufs |-> << SizeOf(8), SizeOf(initOutMaxWrite) >>],
      [errno |-> 0, bufs |-> << HugeSeg, HugeSeg >>] }
AllReplies == HandlerReplies \cup PayloadReplies

\* ---------------------------------------------------------------- state

VARIABLES
    ownerPc,            \* where the owner is inside DoMount / DoUnmount
    nMounts,            \* DoMount calls begun
    nUnmounts,          \* DoUnmount calls begun
    ret,                \* the owner's last call and what it returned
    devFuseFD,          \* volume.devFuseFD
    devFuseFDReaderWG,  \* volume.devFuseFDReaderWG's counter
    callbacksWG,        \* volume.callbacksWG's counter
    bufSt,              \* each read buffer: "free", "pool" or "held"
    bufLen,             \* len() of each read buffer
    bufData,            \* the frame whose bytes each read buffer holds
    env,                \* what this run's environment may do (fixed by Init)
    errChan,            \* the values buffered in errChan
    errSent,            \* per pump, the values it has sent on errChan
    errRecvd,           \* the values the owner has received
    fdState,            \* kernel: each descriptor
    conn,               \* kernel: each descriptor's FUSE connection
    mountStack,         \* kernel: the mounts on mountpointDirPath
    pumpPc,             \* devFuseFDReader, per DoMount
    pumpFd,             \* the descriptor its read is on
    pumpBuf,            \* its devFuseFDReadBuf
    pumpErr,            \* the read error that ended it
    nFrames,            \* frames read
    nRetries,           \* transient read errors on an open descriptor
    unitPc,             \* processDevFuseFDReadBuf, per frame
    unitBy,             \* the pump that spawned it
    unitBuf,            \* its devFuseFDReadBuf
    frame,              \* the frame it was spawned for
    resp,               \* the writev calls issued for it
    unitLog,            \* the log lines written for it
    handlerCalls,       \* the Callbacks handlers invoked for it
    volLog              \* the volume's other log lines, counted

ownerVars == << ownerPc, nMounts, nUnmounts, ret >>
kernelVars == << fdState, conn, mountStack >>
bufVars == << bufSt, bufLen, bufData >>
chanVars == << env, errChan, errSent, errRecvd >>
pumpVars == << pumpPc, pumpFd, pumpBuf, pumpErr >>
unitVars == << unitPc, unitBy, unitBuf, frame, resp, unitLog, handlerCalls >>
\* An unrecovered panic in any goroutine ends the process: nothing of the
\* program runs after it.
Crashed == \E u \in Units : unitPc[u] = "panicked"

vars == << ownerVars, devFuseFD, devFuseFDReaderWG, callbacksWG, bufVars,
           chanVars, kernelVars, pumpVars, nFrames, nRetries, unitVars,
           volLog >>

LogKinds ==
    { "unable to open", "mounted", "mount failed", "unable to unmount",
      "unable to close", "unmounted", "exiting" }

NoFrame == [n |-> 0, op |-> 0]
NoCall == [call |-> "none", err |-> "none"]
\* The owner's call returns err ("pending": it has not returned yet).
Returns(call, err) == ret' = [call |-> call, err |-> err]

\* The environments a run is drawn from.  Each fixes what the owner and the
\* kernel may do in the run: the calls the owner makes, the frames and the
\* transient read errors the kernel delivers, cap(errChan), and which
\* frames, handler replies and write results occur.
KnownFrame == [n |-> InHeaderSize + 8, op |-> OpCodeLookup]
\* The system calls that can fail: Open, Mount, Unmount, Close, Read.
Faults == {"open", "mount", "unmount", "close", "read"}
PlainReply == [errno |-> 0, bufs |-> << >>]

\* The owner mounts and unmounts again and again; one frame is in flight.
RemountEnvs ==
    { [ mounts |-> MaxMounts, unmounts |-> MaxMounts, frames |-> 1,
        retries |-> 0, errChanCap |-> 0, kinds |-> {KnownFrame},
        replies |-> {PlainReply}, writes |-> {"ok"}, faults |-> Faults ] }

\* One mount carrying concurrent frames, too short or with a known opcode.
TrafficEnvs ==
    { [ mounts |-> 1, unmounts |-> 1, frames |-> MaxFrames,
        retries |-> 0, errChanCap |-> 1,
        kinds |-> { k \in FrameKinds : k.n > 0 /\ k.op = OpCodeLookup },
        replies |-> {[errno |-> 0, bufs |-> << SizeOf(8) >>]},
        writes |-> {"ok"}, faults |-> {} ] }

\* One mount and one frame, with every fault: transient read errors, every
\* handler reply and write result, a buffered or an unbuffered errChan.
FaultEnvs ==
    { [ mounts |-> 1, unmounts |-> 1, frames |-> 1,
        retries |-> MaxRetries, errChanCap |-> c, kinds |-> FrameKinds,
        replies |-> HandlerReplies, writes |-> {"ok", "short", "errno"},
        faults |-> Faults ]
      : c \in {0, 1} }

\* One mount and one frame, of eight payload bytes or filling the buffer,
\* the handler answering with PayloadReplies.
PayloadEnvs ==
    { [ mounts |-> 1, unmounts |-> 1, frames |-> 1, retries |-> 0,
        errChanCap |-> 0, kinds |-> {KnownFrame, FullFrame},
        replies |-> PayloadReplies, writes |-> {"ok", "short"},
        faults |-> {} ] }

\* newVolume: nothing mounted, no descriptor, an empty pool.
InitIn(envs) ==
    /\ env \in envs
    /\ ownerPc = "idle"
    /\ nMounts = 0
    /\ nUnmounts = 0
    /\ ret = NoCall
    /\ devFuseFD = 0
    /\ devFuseFDReaderWG = 0
    /\ callbacksWG = 0
    /\ bufSt = [b \in BufIds |-> "free"]
    /\ bufLen = [b \in BufIds |-> devFuseFDReadSize]
    /\ bufData = [b \in BufIds |-> 0]
    /\ errChan = << >>
    /\ errSent = [p \in Mounts |-> << >>]
    /\ errRecvd = << >>
    /\ fdState = [f \in Mounts |-> "unopened"]
    /\ conn = [f \in Mounts |-> "new"]
    /\ mountStack = << >>
    /\ pumpPc = [p \in Mounts |-> "none"]
    /\ pumpFd = [p \in Mounts |-> 0]
    /\ pumpBuf = [p \in Mounts |-> 0]
    /\ pumpErr = [p \in Mounts |-> "none"]
    /\ nFrames = 0
    /\ nRetries = 0
    /\ unitPc = [u \in Units |-> "none"]
    /\ unitBy = [u \in Units |-> 0]
    /\ unitBuf = [u \in Units |-> 0]
    /\ frame = [u \in Units |-> NoFrame]
    /\ resp = [u \in Units |-> << >>]
    /\ unitLog = [u \in Units |-> << >>]
    /\ handlerCalls = [u \in Units |-> << >>]
    /\ volLog = [k \in LogKinds |-> 0]

Printf(k) == volLog' = [volLog EXCEPT ![k] = @ + 1]

\* --------------------------------------------------------- the kernel side

FdOpen(fd) == fd \in Mounts /\ fdState[fd] = "open"

\* syscall.Unmount(mountpointDirPath, MNT_FORCE) can succeed only if
\* something is mounted there.
UnmountOutcomes ==
    IF mountStack = << >> THEN {FALSE}
    ELSE {TRUE} \cup (IF "unmount" \in env.faults THEN {FALSE} ELSE {})

\* A successful unmount detaches the topmost mount: its connection is
\* aborted, and reads of its descriptor fail with "no such device".
Unmounted(ok) ==
    IF ok
    THEN /\ conn' = [conn EXCEPT ![mountStack[Len(mountStack)]] = "aborted"]
         /\ mountStack' = SubSeq(mountStack, 1, Len(mountStack) - 1)
    ELSE UNCHANGED << conn, mountStack >>

\* syscall.Close(fd) fails on a descriptor that is not open; on an open one
\* it may report an error, and Linux closes it all the same.
CloseOutcomes ==
    IF FdOpen(devFuseFD)
    THEN {TRUE} \cup (IF "close" \in env.faults THEN {FALSE} ELSE {})
    ELSE {FALSE}

Closed ==
    fdState' = IF FdOpen(devFuseFD)
               THEN [fdState EXCEPT ![devFuseFD] = "closed"]
               ELSE fdState

\* ------------------------------------------------------------- DoMount

\* Lines 60-69: the stale mount is detached (the result ignored), the
\* descriptor is opened and the pump started.
DoMountOpenOk ==
    /\ ~Crashed
    /\ ownerPc = "idle"
    /\ nMounts < env.mounts
    /\ \E ok \in UnmountOutcomes : Unmounted(ok)
    /\ nMounts' = nMounts + 1
    /\ fdState' = [fdState EXCEPT ![nMounts + 1] = "open"]
    /\ devFuseFD' = nMounts + 1
    /\ devFuseFDReaderWG' = devFuseFDReaderWG + 1
    /\ pumpPc' = [pumpPc EXCEPT ![nMounts + 1] = "get"]
    /\ ownerPc' = "m_mount"
    /\ Returns("DoMount", "pending")
    /\ UNCHANGED << nUnmounts, callbacksWG, bufVars,
                    chanVars, pumpFd, pumpBuf, pumpErr, nFrames, nRetries,
                    unitVars, volLog >>

\* Lines 60-66: the open fails, devFuseFD is what Open returned with it.
DoMountOpenFail ==
    /\ ~Crashed
    /\ ownerPc = "idle"
    /\ nMounts < env.mounts
    /\ "open" \in env.faults
    /\ \E ok \in UnmountOutcomes : Unmounted(ok)
    /\ nMounts' = nMounts + 1
    /\ devFuseFD' = BadFd
    /\ Printf("unable to open")
    /\ Returns("DoMount", "open failed")
    /\ ownerPc' = "idle"
    /\ UNCHANGED << nUnmounts, devFuseFDReaderWG, callbacksWG,
                    bufVars, chanVars, fdState, pumpVars, nFrames, nRetries,
                    unitVars >>

\* Lines 84-86: the mount succeeds.
DoMountMountOk ==
    /\ ~Crashed
    /\ ownerPc = "m_mount"
    /\ conn' = [conn EXCEPT ![devFuseFD] = "mounted"]
    /\ mountStack' = Append(mountStack, devFuseFD)
    /\ Printf("mounted")
    /\ Returns("DoMount", "nil")
    /\ ownerPc' = "idle"
    /\ UNCHANGED << nMounts, nUnmounts, devFuseFD,
                    devFuseFDReaderWG, callbacksWG, bufVars, chanVars,
                    fdState, pumpVars, nFrames, nRetries, unitVars >>

\* Lines 87-89: the mount fails and the descriptor is closed.
DoMountMountFail ==
    /\ ~Crashed
    /\ ownerPc = "m_mount"
    /\ "mount" \in env.faults
    /\ Printf("mount failed")
    /\ Closed
    /\ ownerPc' = "m_wait"
    /\ UNCHANGED << nMounts, nUnmounts, ret, devFuseFD,
                    devFuseFDReaderWG, callbacksWG, bufVars, chanVars, conn,
                    mountStack, pumpVars, nFrames, nRetries, unitVars >>

\* DoMountWait without line 90: the error is returned at once.
DoMountWaitNoWait ==
    /\ ~Crashed
    /\ ownerPc = "m_wait"
    /\ Returns("DoMount", "mount failed")
    /\ ownerPc' = "idle"
    /\ UNCHANGED << nMounts, nUnmounts, devFuseFD,
                    devFuseFDReaderWG, callbacksWG, bufVars, chanVars,
                    kernelVars, pumpVars, nFrames, nRetries, unitVars,
                    volLog >>

\* Lines 90-93: devFuseFDReaderWG.Wait(), then the error is returned.
DoMountWait ==
    /\ ~Crashed
    /\ ownerPc = "m_wait"
    /\ devFuseFDReaderWG = 0
    /\ Returns("DoMount", "mount failed")
    /\ ownerPc' = "idle"
    /\ UNCHANGED << nMounts, nUnmounts, devFuseFD,
                    devFuseFDReaderWG, callbacksWG, bufVars, chanVars,
                    kernelVars, pumpVars, nFrames, nRetries, unitVars,
                    volLog >>

\* ------------------------------------------------------------ DoUnmount

\* Lines 97-101: the unmount fails, DoUnmount returns the error.
DoUnmountUnmountFail ==
    /\ ~Crashed
    /\ ownerPc = "idle"
    /\ nUnmounts < env.unmounts
    /\ FALSE \in UnmountOutcomes
    /\ nUnmounts' = nUnmounts + 1
    /\ Printf("unable to unmount")
    /\ Returns("DoUnmount", "unmount failed")
    /\ ownerPc' = "idle"
    /\ UNCHANGED << nMounts, devFuseFD, devFuseFDReaderWG,
                    callbacksWG, bufVars, chanVars, kernelVars, pumpVars,
                    nFrames, nRetries, unitVars >>

\* Line 97: the unmount succeeds.
DoUnmountUnmountOk ==
    /\ ~Crashed
    /\ ownerPc = "idle"
    /\ nUnmounts < env.unmounts
    /\ TRUE \in UnmountOutcomes
    /\ Unmounted(TRUE)
    /\ nUnmounts' = nUnmounts + 1
    /\ ownerPc' = "u_close"
    /\ Returns("DoUnmount", "pending")
    /\ UNCHANGED << nMounts, devFuseFD,
                    devFuseFDReaderWG, callbacksWG, bufVars, chanVars,
                    fdState, pumpVars, nFrames, nRetries, unitVars, volLog >>

\* Lines 103-107: the close fails, DoUnmount returns the error.
DoUnmountCloseFail ==
    /\ ~Crashed
    /\ ownerPc = "u_close"
    /\ FALSE \in CloseOutcomes
    /\ Closed
    /\ Printf("unable to close")
    /\ Returns("DoUnmount", "close failed")
    /\ ownerPc' = "idle"
    /\ UNCHANGED << nMounts, nUnmounts, devFuseFD,
                    devFuseFDReaderWG, callbacksWG, bufVars, chanVars, conn,
                    mountStack, pumpVars, nFrames, nRetries, unitVars >>

\* Line 103: the close succeeds.
DoUnmountCloseOk ==
    /\ ~Crashed
    /\ ownerPc = "u_close"
    /\ TRUE \in CloseOutcomes
    /\ Closed
    /\ ownerPc' = "u_wait"
    /\ UNCHANGED << nMounts, nUnmounts, ret, devFuseFD,
                    devFuseFDReaderWG, callbacksWG, bufVars, chanVars, conn,
                    mountStack, pumpVars, nFrames, nRetries, unitVars,
                    volLog >>

\* DoUnmountWait without line 109: nil is returned at once.
DoUnmountWaitNoWait ==
    /\ ~Crashed
    /\ ownerPc = "u_wait"
    /\ Printf("unmounted")
    /\ Returns("DoUnmount", "nil")
    /\ ownerPc' = "idle"
    /\ UNCHANGED << nMounts, nUnmounts, devFuseFD,
                    devFuseFDReaderWG, callbacksWG, bufVars, chanVars,
                    kernelVars, pumpVars, nFrames, nRetries, unitVars >>

\* Lines 109-113: devFuseFDReaderWG.Wait(), then nil is returned.
DoUnmountWait ==
    /\ ~Crashed
    /\ ownerPc = "u_wait"
    /\ devFuseFDReaderWG = 0
    /\ Printf("unmounted")
    /\ Returns("DoUnmount", "nil")
    /\ ownerPc' = "idle"
    /\ UNCHANGED << nMounts, nUnmounts, devFuseFD,
                    devFuseFDReaderWG, callbacksWG, bufVars, chanVars,
                    kernelVars, pumpVars, nFrames, nRetries, unitVars >>

\* ----------------------------------------------------- devFuseFDReadPool

\* What sync.Pool.Get can return: a pooled buffer, or a New one.
PoolGetChoices ==
    { b \in BufIds : bufSt[b] = "pool" }
        \cup { b \in BufIds : /\ bufSt[b] = "free"
                              /\ \A c \in BufIds : bufSt[c] = "free" => b <= c }

\* devFuseFDReadPoolGet: a New buffer is made with len == cap.
devFuseFDReadPoolGet(b) ==
    /\ bufSt' = [bufSt EXCEPT ![b] = "held"]
    /\ bufLen' = IF bufSt[b] = "free"
                 THEN [bufLen EXCEPT ![b] = devFuseFDReadSize]
                 ELSE bufLen

\* devFuseFDReadPoolPut without the reslice of line 122: the buffer goes back
\* as long as the last read left it.
devFuseFDReadPoolPutAsIs(b) ==
    /\ bufSt' = [bufSt EXCEPT ![b] = "pool"]
    /\ UNCHANGED << bufLen, bufData >>

\* devFuseFDReadPoolPut: the slice is stretched back to its capacity.
devFuseFDReadPoolPut(b) ==
    /\ bufSt' = [bufSt EXCEPT ![b] = "pool"]
    /\ bufLen' = [bufLen EXCEPT ![b] = devFuseFDReadSize]
    /\ UNCHANGED bufData

\* A buffer nothing refers to any more is the garbage collector's.
Dropped(b) ==
    /\ bufSt' = [bufSt EXCEPT ![b] = "free"]
    /\ bufLen' = [bufLen EXCEPT ![b] = devFuseFDReadSize]
    /\ bufData' = [bufData EXCEPT ![b] = 0]

\* -------------------------------------------------------- devFuseFDReader

\* Lines 134-136: a buffer is taken and the read of volume.devFuseFD begins.
PumpGet(p) ==
    /\ ~Crashed
    /\ pumpPc[p] = "get"
    /\ \E b \in PoolGetChoices :
         /\ devFuseFDReadPoolGet(b)
         /\ pumpBuf' = [pumpBuf EXCEPT ![p] = b]
    /\ pumpFd' = [pumpFd EXCEPT ![p] =
                    IF FdOpen(devFuseFD) THEN devFuseFD ELSE BadFd]
    /\ pumpPc' = [pumpPc EXCEPT ![p] = "read"]
    /\ UNCHANGED << ownerVars, devFuseFD, devFuseFDReaderWG, callbacksWG,
                    bufData, chanVars, kernelVars, pumpErr, nFrames,
                    nRetries, unitVars, volLog >>

\* PumpReadRetry without the special case of lines 138-141: "operation not
\* permitted" ends the pump like any other read error.
PumpReadRetryExits(p) ==
    /\ ~Crashed
    /\ pumpPc[p] = "read"
    /\ pumpFd[p] # BadFd
    /\ conn[pumpFd[p]] = "new"
    /\ nRetries < env.retries \/ fdState[pumpFd[p]] = "closed"
    /\ nRetries' = IF fdState[pumpFd[p]] = "closed"
                   THEN nRetries ELSE nRetries + 1
    /\ Dropped(pumpBuf[p])
    /\ pumpErr' = [pumpErr EXCEPT ![p] = EPERMText]
    /\ pumpBuf' = [pumpBuf EXCEPT ![p] = 0]
    /\ pumpFd' = [pumpFd EXCEPT ![p] = 0]
    /\ pumpPc' = [pumpPc EXCEPT ![p] = "wait"]
    /\ UNCHANGED << ownerVars, devFuseFD, devFuseFDReaderWG, callbacksWG,
                    chanVars, kernelVars, nFrames, unitVars, volLog >>

\* Lines 137-141: a descriptor that is not mounted (yet) reads "operation
\* not permitted"; the read is tried again, with another buffer.
PumpReadRetry(p) ==
    /\ ~Crashed
    /\ pumpPc[p] = "read"
    /\ pumpFd[p] # BadFd
    /\ conn[pumpFd[p]] = "new"
    /\ nRetries < env.retries \/ fdState[pumpFd[p]] = "closed"
    /\ nRetries' = IF fdState[pumpFd[p]] = "closed"
                   THEN nRetries ELSE nRetries + 1
    /\ Dropped(pumpBuf[p])
    /\ pumpBuf' = [pumpBuf EXCEPT ![p] = 0]
    /\ pumpFd' = [pumpFd EXCEPT ![p] = 0]
    /\ pumpPc' = [pumpPc EXCEPT ![p] = "get"]
    /\ UNCHANGED << ownerVars, devFuseFD, devFuseFDReaderWG, callbacksWG,
                    chanVars, kernelVars, pumpErr, nFrames, unitVars,
                    volLog >>

\* PumpReadFrame with the buffer put back in the pool as it is handed to the
\* dispatch unit: the pump's next read can land in it.
PumpReadFramePutsBack(p, kind) ==
    /\ ~Crashed
    /\ pumpPc[p] = "read"
    /\ pumpFd[p] # BadFd
    /\ conn[pumpFd[p]] = "mounted"
    /\ nFrames < env.frames
    /\ kind \in env.kinds
    /\ nFrames' = nFrames + 1
    /\ bufSt' = [bufSt EXCEPT ![pumpBuf[p]] = "pool"]
    /\ bufLen' = [bufLen EXCEPT ![pumpBuf[p]] = kind.n]
    /\ bufData' = [bufData EXCEPT ![pumpBuf[p]] = nFrames + 1]
    /\ frame' = [frame EXCEPT ![nFrames + 1] = kind]
    /\ callbacksWG' = callbacksWG + 1
    /\ unitPc' = [unitPc EXCEPT ![nFrames + 1] = "run"]
    /\ unitBy' = [unitBy EXCEPT ![nFrames + 1] = p]
    /\ unitBuf' = [unitBuf EXCEPT ![nFrames + 1] = pumpBuf[p]]
    /\ pumpBuf' = [pumpBuf EXCEPT ![p] = 0]
    /\ pumpFd' = [pumpFd EXCEPT ![p] = 0]
    /\ pumpPc' = [pumpPc EXCEPT ![p] = "get"]
    /\ UNCHANGED << ownerVars, devFuseFD, devFuseFDReaderWG,
                    chanVars, kernelVars, pumpErr, nRetries, resp, unitLog,
                    handlerCalls, volLog >>

\* PumpReadFrame with the buffer obtained once, before the loop: the pump
\* reads on into the buffer it has just handed over.
PumpReadFrameKeepsBuf(p, kind) ==
    /\ ~Crashed
    /\ pumpPc[p] = "read"
    /\ pumpFd[p] # BadFd
    /\ conn[pumpFd[p]] = "mounted"
    /\ nFrames < env.frames
    /\ kind \in env.kinds
    /\ nFrames' = nFrames + 1
    /\ bufLen' = [bufLen EXCEPT ![pumpBuf[p]] = kind.n]
    /\ bufData' = [bufData EXCEPT ![pumpBuf[p]] = nFrames + 1]
    /\ frame' = [frame EXCEPT ![nFrames + 1] = kind]
    /\ callbacksWG' = callbacksWG + 1
    /\ unitPc' = [unitPc EXCEPT ![nFrames + 1] = "run"]
    /\ unitBy' = [unitBy EXCEPT ![nFrames + 1] = p]
    /\ unitBuf' = [unitBuf EXCEPT ![nFrames + 1] = pumpBuf[p]]
    /\ UNCHANGED << ownerVars, devFuseFD, devFuseFDReaderWG, bufSt,
                    chanVars, kernelVars, pumpVars, nRetries, resp, unitLog,
                    handlerCalls, volLog >>

\* Lines 160-165: a frame is read; the buffer is cut to it and handed to a
\* new goroutine.
PumpReadFrame(p, kind) ==
    /\ ~Crashed
    /\ pumpPc[p] = "read"
    /\ pumpFd[p] # BadFd
    /\ conn[pumpFd[p]] = "mounted"
    /\ nFrames < env.frames
    /\ kind \in env.kinds
    /\ nFrames' = nFrames + 1
    /\ bufLen' = [bufLen EXCEPT ![pumpBuf[p]] = kind.n]
    /\ bufData' = [bufData EXCEPT ![pumpBuf[p]] = nFrames + 1]
    /\ frame' = [frame EXCEPT ![nFrames + 1] = kind]
    /\ callbacksWG' = callbacksWG + 1
    /\ unitPc' = [unitPc EXCEPT ![nFrames + 1] = "run"]
    /\ unitBy' = [unitBy EXCEPT ![nFrames + 1] = p]
    /\ unitBuf' = [unitBuf EXCEPT ![nFrames + 1] = pumpBuf[p]]
    /\ pumpBuf' = [pumpBuf EXCEPT ![p] = 0]
    /\ pumpFd' = [pumpFd EXCEPT ![p] = 0]
    /\ pumpPc' = [pumpPc EXCEPT ![p] = "get"]
    /\ UNCHANGED << ownerVars, devFuseFD, devFuseFDReaderWG, bufSt,
                    chanVars, kernelVars, pumpErr, nRetries, resp, unitLog,
                    handlerCalls, volLog >>

\* Lines 137-145, the error that ends the pump.
PumpExits(p, err) ==
    /\ pumpErr' = [pumpErr EXCEPT ![p] = err]
    /\ Dropped(pumpBuf[p])
    /\ pumpBuf' = [pumpBuf EXCEPT ![p] = 0]
    /\ pumpFd' = [pumpFd EXCEPT ![p] = 0]
    /\ pumpPc' = [pumpPc EXCEPT ![p] = "wait"]
    /\ UNCHANGED << ownerVars, devFuseFD, devFuseFDReaderWG, callbacksWG,
                    chanVars, kernelVars, nFrames, nRetries, unitVars,
                    volLog >>

\* PumpReadClosed with every read error taken for the transient one: the
\* pump retries the read instead of exiting.
PumpReadClosedRetries(p) ==
    /\ ~Crashed
    /\ pumpPc[p] = "read"
    /\ \/ pumpFd[p] = BadFd
       \/ pumpFd[p] # BadFd /\ conn[pumpFd[p]] = "aborted"
    /\ Dropped(pumpBuf[p])
    /\ pumpBuf' = [pumpBuf EXCEPT ![p] = 0]
    /\ pumpFd' = [pumpFd EXCEPT ![p] = 0]
    /\ pumpPc' = [pumpPc EXCEPT ![p] = "get"]
    /\ UNCHANGED << ownerVars, devFuseFD, devFuseFDReaderWG, callbacksWG,
                    chanVars, kernelVars, pumpErr, nFrames, nRetries,
                    unitVars, volLog >>

\* The read of a descriptor that is closed, or whose connection is aborted.
PumpReadClosed(p) ==
    /\ ~Crashed
    /\ pumpPc[p] = "read"
    /\ \/ pumpFd[p] = BadFd /\ PumpExits(p, EBADFText)
       \/ /\ pumpFd[p] # BadFd
          /\ conn[pumpFd[p]] = "aborted"
          /\ PumpExits(p, ENODEVText)

\* Any other read error of a live connection.
PumpReadError(p) ==
    /\ ~Crashed
    /\ pumpPc[p] = "read"
    /\ "read" \in env.faults
    /\ pumpFd[p] # BadFd
    /\ conn[pumpFd[p]] = "mounted"
    /\ PumpExits(p, EIOText)

\* PumpWait without the barrier: callbacksWG.Wait() is left out.
PumpWaitNoBarrier(p) ==
    /\ ~Crashed
    /\ pumpPc[p] = "wait"
    /\ devFuseFDReaderWG' = devFuseFDReaderWG - 1
    /\ IF pumpErr[p] = ENODEVText THEN UNCHANGED volLog ELSE Printf("exiting")
    /\ pumpPc' = [pumpPc EXCEPT ![p] = "send"]
    /\ UNCHANGED << ownerVars, devFuseFD, callbacksWG, bufVars, chanVars,
                    kernelVars, pumpFd, pumpBuf, pumpErr, nFrames, nRetries,
                    unitVars >>

\* PumpWait with devFuseFDReaderWG.Done() moved behind the send on errChan:
\* the pump goes to its send with devFuseFDReaderWG still held.
PumpWaitDoneAfterSend(p) ==
    /\ ~Crashed
    /\ pumpPc[p] = "wait"
    /\ callbacksWG = 0
    /\ IF pumpErr[p] = ENODEVText THEN UNCHANGED volLog ELSE Printf("exiting")
    /\ pumpPc' = [pumpPc EXCEPT ![p] = "send"]
    /\ UNCHANGED << ownerVars, devFuseFD, devFuseFDReaderWG, callbacksWG,
                    bufVars, chanVars, kernelVars, pumpFd, pumpBuf, pumpErr,
                    nFrames, nRetries, unitVars >>

\* Lines 145-153: callbacksWG.Wait() returns, devFuseFDReaderWG.Done(),
\* and the log line of an error.
PumpWait(p) ==
    /\ ~Crashed
    /\ pumpPc[p] = "wait"
    /\ callbacksWG = 0
    /\ devFuseFDReaderWG' = devFuseFDReaderWG - 1
    /\ IF pumpErr[p] = ENODEVText THEN UNCHANGED volLog ELSE Printf("exiting")
    /\ pumpPc' = [pumpPc EXCEPT ![p] = "send"]
    /\ UNCHANGED << ownerVars, devFuseFD, callbacksWG, bufVars, chanVars,
                    kernelVars, pumpFd, pumpBuf, pumpErr, nFrames, nRetries,
                    unitVars >>

\* ErrChanValue without the "no such device" case: the error is sent as is.
ErrChanValueNoNil(err) == err

\* Lines 150-155: what the pump sends for the error that ended it.
ErrChanValue(err) == IF err = ENODEVText THEN "nil" ELSE err

\* Lines 150-157: the send on a buffered errChan with room.
PumpSend(p) ==
    /\ ~Crashed
    /\ pumpPc[p] = "send"
    /\ Len(errChan) < env.errChanCap
    /\ errChan' = Append(errChan, ErrChanValue(pumpErr[p]))
    /\ errSent' = [errSent EXCEPT ![p] = Append(@, ErrChanValue(pumpErr[p]))]
    /\ pumpPc' = [pumpPc EXCEPT ![p] = "exited"]
    /\ UNCHANGED << ownerVars, devFuseFD, devFuseFDReaderWG, callbacksWG,
                    bufVars, env, errRecvd, kernelVars, pumpFd,
                    pumpBuf, pumpErr, nFrames, nRetries, unitVars, volLog >>

\* PumpSendDirect without the return of line 157: the loop goes on.
PumpSendDirectNoReturn(p) ==
    /\ ~Crashed
    /\ pumpPc[p] = "send"
    /\ env.errChanCap = 0
    /\ errRecvd' = Append(errRecvd, ErrChanValue(pumpErr[p]))
    /\ errSent' = [errSent EXCEPT ![p] = Append(@, ErrChanValue(pumpErr[p]))]
    /\ pumpPc' = [pumpPc EXCEPT ![p] = "get"]
    /\ UNCHANGED << ownerVars, devFuseFD, devFuseFDReaderWG, callbacksWG,
                    bufVars, env, errChan, kernelVars, pumpFd,
                    pumpBuf, pumpErr, nFrames, nRetries, unitVars, volLog >>

\* Lines 150-157: the send on an unbuffered errChan, into the owner's
\* receive.
PumpSendDirect(p) ==
    /\ ~Crashed
    /\ pumpPc[p] = "send"
    /\ env.errChanCap = 0
    /\ errRecvd' = Append(errRecvd, ErrChanValue(pumpErr[p]))
    /\ errSent' = [errSent EXCEPT ![p] = Append(@, ErrChanValue(pumpErr[p]))]
    /\ pumpPc' = [pumpPc EXCEPT ![p] = "exited"]
    /\ UNCHANGED << ownerVars, devFuseFD, devFuseFDReaderWG, callbacksWG,
                    bufVars, env, errChan, kernelVars, pumpFd,
                    pumpBuf, pumpErr, nFrames, nRetries, unitVars, volLog >>

\* The owner's receive from a buffered errChan.
OwnerRecv ==
    /\ ~Crashed
    /\ errChan # << >>
    /\ errRecvd' = Append(errRecvd, Head(errChan))
    /\ errChan' = Tail(errChan)
    /\ UNCHANGED << ownerVars, devFuseFD, devFuseFDReaderWG, callbacksWG,
                    bufVars, env, errSent, kernelVars, pumpVars,
                    nFrames, nRetries, unitVars, volLog >>

\* ------------------------------------------------------- devFuseFDWriter

\* What the writev of a response can come to.
WriteOutcomes ==
    IF FdOpen(devFuseFD) /\ conn[devFuseFD] = "mounted"
    THEN env.writes
    ELSE {"errno"}

\* Lines 298-300 and 328-334: the log lines of one call.
WriterLog(errno, res) ==
    (IF errno = ENOSYS THEN << "unsupported" >> ELSE << >>)
        \o (IF res = "short" THEN << "bad bytesWritten" >>
            ELSE IF res = "errno" THEN << "bad errno" >> ELSE << >>)

\* Lines 304-327: the one writev of a call, as the kernel sees it.
Response(inHeader, errno, bufs, res) ==
    [ hdr    |-> OutHeader(inHeader, errno, bufs),
      span   |-> IovecSpan(bufs),
      nsegs  |-> Len(bufs),
      fd     |-> devFuseFD,
      fdOpen |-> FdOpen(devFuseFD),
      res    |-> res ]

\* Line 307: &buf[0] of an empty segment is an index out of range, a
\* run-time panic.
WriterPanics(bufs) == \E i \in 1..Len(bufs) : bufs[i] = SizeOf(0)

\* devFuseFDWriter with a retry: a write that failed or was short is issued
\* a second time.
devFuseFDWriterRetries(u, inHeader, errno, bufs, res) ==
    IF WriterPanics(bufs)
    THEN /\ resp' = resp
         /\ unitLog' = [unitLog EXCEPT ![u] = @ \o WriterLog(errno, "ok")]
    ELSE /\ resp' = [resp EXCEPT ![u] =
                        IF res = "ok"
                        THEN Append(@, Response(inHeader, errno, bufs, res))
                        ELSE Append(Append(@,
                                 Response(inHeader, errno, bufs, res)),
                                 Response(inHeader, errno, bufs, res))]
         /\ unitLog' = [unitLog EXCEPT ![u] = @ \o WriterLog(errno, res)]

\* Lines 286-335; a call that panics has logged at most the ENOSYS line and
\* has issued no write.
devFuseFDWriter(u, inHeader, errno, bufs, res) ==
    IF WriterPanics(bufs)
    THEN /\ resp' = resp
         /\ unitLog' = [unitLog EXCEPT ![u] = @ \o WriterLog(errno, "ok")]
    ELSE /\ resp' = [resp EXCEPT ![u] =
                        Append(@, Response(inHeader, errno, bufs, res))]
         /\ unitLog' = [unitLog EXCEPT ![u] = @ \o WriterLog(errno, res)]

\* ----------------------------------------------- processDevFuseFDReadBuf

\* The bytes of the unit's buffer, len(devFuseFDReadBuf) of them at most; a
\* buffer no read has filled holds the zeros make() gave it.
BufBytes(b) ==
    LET n == IF bufLen[b] < InHeaderSize THEN bufLen[b] ELSE InHeaderSize IN
    IF bufData[b] = 0 THEN Zeros(n)
    ELSE SubSeq(FrameHeader(bufData[b], frame[bufData[b]]), 1, n)

\* UnitMalformed returning right after the log line: no Put of the buffer.
UnitMalformedLeaks(u) ==
    /\ ~Crashed
    /\ unitPc[u] = "run"
    /\ bufLen[unitBuf[u]] < InHeaderSize
    /\ unitLog' = [unitLog EXCEPT ![u] = Append(@, "malformed")]
    /\ unitPc' = [unitPc EXCEPT ![u] = "wgdone"]
    /\ UNCHANGED << ownerVars, devFuseFD, devFuseFDReaderWG, callbacksWG,
                    bufVars, chanVars, kernelVars, pumpVars, nFrames,
                    nRetries, unitBy, unitBuf, frame, resp, handlerCalls,
                    volLog >>

\* Lines 174-180: a frame too short for a header is logged and dropped.
UnitMalformed(u) ==
    /\ ~Crashed
    /\ unitPc[u] = "run"
    /\ bufLen[unitBuf[u]] < InHeaderSize
    /\ unitLog' = [unitLog EXCEPT ![u] = Append(@, "malformed")]
    /\ unitPc' = [unitPc EXCEPT ![u] = "put"]
    /\ UNCHANGED << ownerVars, devFuseFD, devFuseFDReaderWG, callbacksWG,
                    bufVars, chanVars, kernelVars, pumpVars, nFrames,
                    nRetries, unitBy, unitBuf, frame, resp, handlerCalls,
                    volLog >>

\* The do<OpCode> method and the Callbacks handler behind it: it is called
\* with the header and the payload, and answers through devFuseFDWriter.
doHandler(u, inHeader, reply, res) ==
    /\ handlerCalls' = [handlerCalls EXCEPT ![u] = Append(@, inHeader.OpCode)]
    /\ devFuseFDWriter(u, inHeader, reply.errno, reply.bufs, res)

\* Lines 182-277: the header is decoded and the opcode's handler called.
UnitHandler(u, reply) ==
    /\ ~Crashed
    /\ unitPc[u] = "run"
    /\ reply \in env.replies
    /\ bufLen[unitBuf[u]] >= InHeaderSize
    /\ LET inHeader == DecodeInHeader(BufBytes(unitBuf[u])) IN
         /\ inHeader.OpCode \in KnownOpCodes
         /\ \E res \in WriteOutcomes : doHandler(u, inHeader, reply, res)
    /\ unitPc' = [unitPc EXCEPT ![u] =
                    IF WriterPanics(reply.bufs) THEN "panicked" ELSE "put"]
    /\ UNCHANGED << ownerVars, devFuseFD, devFuseFDReaderWG, callbacksWG,
                    bufVars, chanVars, kernelVars, pumpVars, nFrames,
                    nRetries, unitBy, unitBuf, frame, volLog >>

\* UnitUnsupported with an empty default case: the frame gets no answer.
UnitUnsupportedSilent(u) ==
    /\ ~Crashed
    /\ unitPc[u] = "run"
    /\ bufLen[unitBuf[u]] >= InHeaderSize
    /\ DecodeInHeader(BufBytes(unitBuf[u])).OpCode \notin KnownOpCodes
    /\ unitPc' = [unitPc EXCEPT ![u] = "put"]
    /\ UNCHANGED << ownerVars, devFuseFD, devFuseFDReaderWG, callbacksWG,
                    bufVars, chanVars, kernelVars, pumpVars, nFrames,
                    nRetries, unitBy, unitBuf, frame, resp, unitLog,
                    handlerCalls, volLog >>

\* Lines 278-280: no case for the opcode, ENOSYS is answered.
UnitUnsupported(u) ==
    /\ ~Crashed
    /\ unitPc[u] = "run"
    /\ bufLen[unitBuf[u]] >= InHeaderSize
    /\ LET inHeader == DecodeInHeader(BufBytes(unitBuf[u])) IN
         /\ inHeader.OpCode \notin KnownOpCodes
         /\ \E res \in WriteOutcomes :
              devFuseFDWriter(u, inHeader, ENOSYS, << >>, res)
    /\ unitPc' = [unitPc EXCEPT ![u] = "put"]
    /\ UNCHANGED << ownerVars, devFuseFD, devFuseFDReaderWG, callbacksWG,
                    bufVars, chanVars, kernelVars, pumpVars, nFrames,
                    nRetries, unitBy, unitBuf, frame, handlerCalls, volLog >>

\* Lines 177 and 282: the buffer goes back to the pool.
UnitPut(u) ==
    /\ ~Crashed
    /\ unitPc[u] = "put"
    /\ devFuseFDReadPoolPut(unitBuf[u])
    /\ unitBuf' = [unitBuf EXCEPT ![u] = 0]
    /\ unitPc' = [unitPc EXCEPT ![u] = "wgdone"]
    /\ UNCHANGED << ownerVars, devFuseFD, devFuseFDReaderWG, callbacksWG,
                    chanVars, kernelVars, pumpVars, nFrames, nRetries,
                    unitBy, frame, resp, unitLog, handlerCalls, volLog >>

\* Lines 178 and 283: callbacksWG.Done().
UnitDone(u) ==
    /\ ~Crashed
    /\ unitPc[u] = "wgdone"
    /\ callbacksWG' = callbacksWG - 1
    /\ unitPc' = [unitPc EXCEPT ![u] = "finished"]
    /\ UNCHANGED << ownerVars, devFuseFD, devFuseFDReaderWG, bufVars,
                    chanVars, kernelVars, pumpVars, nFrames, nRetries,
                    unitBy, unitBuf, frame, resp, unitLog, handlerCalls,
                    volLog >>

\* ------------------------------------------------------- specifications

Next ==
    \/ DoMountOpenOk
    \/ DoMountOpenFail
    \/ DoMountMountOk
    \/ DoMountMountFail
    \/ DoMountWait
    \/ DoUnmountUnmountFail
    \/ DoUnmountUnmountOk
    \/ DoUnmountCloseFail
    \/ DoUnmountCloseOk
    \/ DoUnmountWait
    \/ \E p \in Mounts : PumpGet(p)
    \/ \E p \in Mounts : PumpReadRetry(p)
    \/ \E p \in Mounts, kind \in AllFrameKinds : PumpReadFrame(p, kind)
    \/ \E p \in Mounts : PumpReadClosed(p)
    \/ \E p \in Mounts : PumpReadError(p)
    \/ \E p \in Mounts : PumpWait(p)
    \/ \E p \in Mounts : PumpSend(p)
    \/ \E p \in Mounts : PumpSendDirect(p)
    \/ OwnerRecv
    \/ \E u \in Units : UnitMalformed(u)
    \/ \E u \in Units, reply \in AllReplies : UnitHandler(u, reply)
    \/ \E u \in Units : UnitUnsupported(u)
    \/ \E u \in Units : UnitPut(u)
    \/ \E u \in Units : UnitDone(u)

\* One channel lifetime: traffic, and every fault.
Init == InitIn(TrafficEnvs \cup FaultEnvs)
Spec == Init /\ [][Next]_vars

\* What the scheduler and the kernel guarantee: a goroutine that can take a
\* step takes one, a read that fails returns, a handler that was invoked
\* returns, and the owner receives from errChan.  No fairness is assumed of
\* the owner's calls, nor of the kernel sending frames or read errors on a
\* live connection.
PumpStep(p) ==
    \/ PumpGet(p)
    \/ PumpReadRetry(p)
    \/ PumpReadClosed(p)
    \/ PumpWait(p)
    \/ PumpSend(p)
    \/ PumpSendDirect(p)
UnitStep(u) ==
    \/ UnitMalformed(u)
    \/ \E reply \in AllReplies : UnitHandler(u, reply)
    \/ UnitUnsupported(u)
    \/ UnitPut(u)
    \/ UnitDone(u)
PumpFairness == \A p \in Mounts : WF_vars(PumpStep(p))
UnitFairness == \A u \in Units : WF_vars(UnitStep(u))
SpecLive ==
    Init /\ [][Next]_vars /\ PumpFairness /\ UnitFairness /\ WF_vars(OwnerRecv)

\* The pump's steps other than its send on errChan.
PumpWork(p) ==
    \/ PumpGet(p)
    \/ PumpReadRetry(p)
    \/ PumpReadClosed(p)
    \/ PumpWait(p)
\* The goroutines run; nobody is bound to receive from errChan.
SpecNoRecv ==
    /\ Init /\ [][Next]_vars
    /\ \A p \in Mounts : WF_vars(PumpWork(p))
    /\ UnitFairness
    /\ WF_vars(DoUnmountWait)

\* One channel lifetime with the answers that strain the encoder.
InitPayload == InitIn(PayloadEnvs \cup FaultEnvs)
SpecPayload == InitPayload /\ [][Next]_vars

\* The owner mounts the volume again.
InitRemount == InitIn(RemountEnvs \cup FaultEnvs)
SpecRemount == InitRemount /\ [][Next]_vars

\* ------------------------------------------------------------- the claims

\* The dispatch units a pump spawned that have not called callbacksWG.Done.
InFlightOf(p) ==
    { u \in Units : unitBy[u] = p /\ unitPc[u] \in {"run", "put", "wgdone"} }
SpawnedBy(p) == { u \in Units : unitBy[u] = p }
\* A pump that exists and has not released devFuseFDReaderWG yet.
PumpRunning(p) == pumpPc[p] \in {"get", "read", "wait"}
PumpsStarted == { p \in Mounts : pumpPc[p] # "none" }
SentCount == Cardinality({ p \in Mounts : errSent[p] # << >> })

\* C1: a pump sends on errChan only in a state where none of the dispatch
\* units it spawned is unfinished, and it spawns no dispatch unit once it
\* has started to wait on callbacksWG.
C1_QuiescenceBarrier ==
    [][ \A p \in Mounts :
          /\ (pumpPc[p] = "send" \/ pumpPc'[p] = "exited")
                => InFlightOf(p) = {}
          /\ pumpPc[p] \in {"wait", "send", "exited"}
                => { u \in Units : unitBy'[u] = p } = SpawnedBy(p) ]_vars

\* A pump has sent its outcome after a unit it spawned has finished.
C1_Witness ==
    \E p \in Mounts : \E u \in Units :
        /\ pumpPc[p] = "exited"
        /\ errSent[p] # << >>
        /\ unitBy[u] = p
        /\ unitPc[u] = "finished"

\* C2 as claimed: over any sequence of DoMount and DoUnmount calls on one
\* volume at most one value is ever sent on errChan, and exactly one has
\* been sent once every pump that was started has exited.
C2_Original ==
    /\ SentCount <= 1
    /\ \A p \in Mounts : Len(errSent[p]) <= 1
    /\ (PumpsStarted # {} /\ \A p \in PumpsStarted : pumpPc[p] = "exited")
          => SentCount = 1

\* C2 as amended: every pump (one per DoMount whose open succeeded) sends
\* exactly one value: none before it exits, one when it has exited.
C2_OncePerPump ==
    \A p \in Mounts :
        /\ Len(errSent[p]) <= 1
        /\ pumpPc[p] = "exited" <=> Len(errSent[p]) = 1

\* Two pumps of the same volume have each sent their value.
C2_Witness ==
    /\ SentCount = 2
    /\ \A p \in PumpsStarted : pumpPc[p] = "exited"

DoUnmountFailed ==
    ret.call = "DoUnmount" /\ ret.err \in {"unmount failed", "close failed"}

\* C3 as claimed: when DoUnmount has returned an error, every pump has
\* terminated (it has at least released devFuseFDReaderWG, which is what
\* DoUnmount waits on).
C3_Original ==
    DoUnmountFailed => \A p \in Mounts : ~PumpRunning(p)

\* C3 as amended: DoUnmount returns an error when the unmount or the close
\* fails, and then returns at once, from the failed call, without waiting on
\* devFuseFDReaderWG; it returns nil only from the wait, when every pump has
\* released devFuseFDReaderWG.
C3_WaitsOnlyOnSuccess ==
    [][ (ret'.call = "DoUnmount" /\ ret'.err # "pending"
            /\ (ret.err = "pending" \/ nUnmounts' # nUnmounts))
          => /\ ret'.err = "unmount failed" => ownerPc = "idle"
             /\ ret'.err = "close failed" => ownerPc = "u_close"
             /\ ret'.err = "nil"
                   => /\ ownerPc = "u_wait"
                      /\ devFuseFDReaderWG = 0
                      /\ \A p \in Mounts : ~PumpRunning(p) ]_vars

\* DoUnmount has returned the close's error while the pump is still reading.
C3_Witness ==
    /\ ret = [call |-> "DoUnmount", err |-> "close failed"]
    /\ \E p \in Mounts : PumpRunning(p)

DoMountFailed ==
    ret.call = "DoMount" /\ ret.err \in {"open failed", "mount failed"}

\* C4 as claimed: when DoMount has returned an error, the pump it started is
\* gone: not running, and not blocked on its errChan send either.
C4_Original ==
    DoMountFailed => pumpPc[nMounts] \in {"none", "exited"}

\* C4 as amended: when DoMount has returned an error, the pump it started
\* (none, if the open failed) has waited for its dispatch units and released
\* devFuseFDReaderWG; only its send on errChan may still be outstanding.
C4_PumpPastBarrier ==
    /\ (ret.call = "DoMount" /\ ret.err = "open failed")
          => pumpPc[nMounts] = "none"
    /\ (ret.call = "DoMount" /\ ret.err = "mount failed")
          => /\ pumpPc[nMounts] \in {"send", "exited"}
             /\ InFlightOf(nMounts) = {}

\* DoMount has returned the mount's error and its pump has yet to send.
C4_Witness ==
    /\ ret = [call |-> "DoMount", err |-> "mount failed"]
    /\ pumpPc[nMounts] = "send"

\* C5: the value a pump sends is nil exactly when the read error that ended
\* it is "no such device"; any other error is sent as it is.
C5_NilIffNoSuchDevice ==
    \A p \in Mounts :
        errSent[p] # << >>
            => /\ errSent[p][1] = "nil" <=> pumpErr[p] = ENODEVText
               /\ pumpErr[p] # ENODEVText => errSent[p][1] = pumpErr[p]
               /\ pumpErr[p] \in {ENODEVText, EBADFText, EIOText}

\* A pump ended by "no such device" has sent nil and the owner received it.
C5_Witness ==
    \E p \in Mounts :
        /\ pumpErr[p] = ENODEVText
        /\ errSent[p] = << "nil" >>
        /\ errRecvd = << "nil" >>

\* C6: once the descriptor a DoMount opened has been closed, the pump that
\* DoMount started eventually reaches its terminal state; it enters that
\* state with none of its dispatch units unfinished, and never leaves it.
C6_ShutdownLiveness ==
    /\ \A p \in Mounts : (fdState[p] = "closed") ~> (pumpPc[p] = "exited")
    /\ [][ \A p \in Mounts :
             /\ pumpPc[p] = "exited" => pumpPc'[p] = "exited"
             /\ (pumpPc[p] # "exited" /\ pumpPc'[p] = "exited")
                   => (InFlightOf(p) = {} /\ Len(errSent'[p]) = 1) ]_vars

\* After DoUnmount closed the descriptor the pump, which had dispatched a
\* frame, has reached its terminal state.
C6_Witness ==
    \E p \in Mounts :
        /\ fdState[p] = "closed"
        /\ pumpPc[p] = "exited"
        /\ SpawnedBy(p) # {}
        /\ ret = [call |-> "DoUnmount", err |-> "nil"]

\* The dispatch unit of frame u is past its switch (or its length check).
Handled(u) == unitPc[u] \in {"put", "wgdone", "finished"}
HasHeader(u) == u <= nFrames /\ frame[u].n >= InHeaderSize
ShortFrame(u) == u <= nFrames /\ frame[u].n < InHeaderSize
\* The Unique field of a response header, and of the u-th frame as read.
UniqueField(hdr) == SubSeq(hdr, 9, 16)
RequestUnique(u) == SubSeq(FrameHeader(u, frame[u]), 9, 16)

\* C7: every frame read has exactly one dispatch unit; a frame with a header
\* is answered at most once, exactly once when its unit is past the handler,
\* and with its own Unique, whatever the order the units run in.
C7_OneResponseEach ==
    \A u \in Units :
        /\ u <= nFrames <=> unitPc[u] # "none"
        /\ u > nFrames => frame[u] = NoFrame
        /\ Len(resp[u]) <= 1
        /\ (HasHeader(u) /\ Handled(u)) => Len(resp[u]) = 1
        /\ \A i \in 1..Len(resp[u]) :
             /\ UniqueField(resp[u][i].hdr) = UniqueOf(u)
             /\ \A v \in Units \ {u} : \A j \in 1..Len(resp[v]) :
                  UniqueField(resp[v][j].hdr) # UniqueField(resp[u][i].hdr)

\* The second frame has been answered while the first, read before it, is
\* still with its handler.
C7_Witness ==
    /\ nFrames >= 2
    /\ HasHeader(1) /\ unitPc[1] = "run" /\ resp[1] = << >>
    /\ HasHeader(2) /\ Handled(2) /\ Len(resp[2]) = 1

\* C8: every response header is OutHeaderSize bytes and carries, in bytes
\* 8..15, the Unique (bytes 8..15) of the request header its dispatch unit
\* decoded, for every errno and every list of payload segments.
C8_UniqueRoundTrip ==
    \A u \in Units : \A i \in 1..Len(resp[u]) :
        /\ Len(resp[u][i].hdr) = OutHeaderSize
        /\ UniqueField(resp[u][i].hdr) = RequestUnique(u)
        /\ UniqueField(resp[u][i].hdr)
              = DecodeInHeader(FrameHeader(u, frame[u])).Unique

\* A response with a non-zero errno and one with a payload segment exist.
C8_Witness ==
    \E u \in Units :
        /\ Len(resp[u]) = 1
        /\ resp[u][1].nsegs = 1
        /\ UniqueField(resp[u][1].hdr) = UniqueOf(u)

\* C9: a frame with a header whose opcode is not a known one is answered
\* exactly once: 16 bytes, no payload segment, status -ENOSYS, the request's
\* Unique; no handler is called for it.
C9_UnsupportedOpcode ==
    \A u \in Units :
        (HasHeader(u) /\ frame[u].op \notin KnownOpCodes)
            => /\ handlerCalls[u] = << >>
               /\ Handled(u) => Len(resp[u]) = 1
               /\ ~Handled(u) => resp[u] = << >>
               /\ \A i \in 1..Len(resp[u]) :
                    /\ resp[u][i].nsegs = 0
                    /\ resp[u][i].span = << 0, 16 >>
                    /\ resp[u][i].hdr
                         = << 16, 0, 0, 0, 218, 255, 255, 255 >>
                              \o RequestUnique(u)

\* The unit of a frame with an unknown opcode has finished, its one answer
\* written in full.
C9_Witness ==
    \E u \in Units :
        /\ HasHeader(u)
        /\ frame[u].op = UnknownOpCode
        /\ unitPc[u] = "finished"
        /\ Len(resp[u]) = 1
        /\ resp[u][1].res = "ok"

\* C10: the dispatch unit of a frame shorter than InHeaderSize writes no
\* response and calls no handler, logs exactly one line, then puts its
\* buffer back in the pool at full length and calls callbacksWG.Done; none
\* of its steps changes the pump's state or sends on errChan.
C10_ShortFrameDropped ==
    [][ \A u \in Units :
          ShortFrame(u)' =>
            /\ resp'[u] = << >>
            /\ handlerCalls'[u] = << >>
            /\ unitLog'[u] = IF unitPc'[u] = "run" THEN << >>
                             ELSE << "malformed" >>
            /\ unitPc'[u] \in {"wgdone", "finished"} => unitBuf'[u] = 0
            /\ unitPc'[u] # unitPc[u] =>
                 /\ unitPc[u] = "put" =>
                      /\ unitPc'[u] = "wgdone"
                      /\ bufSt'[unitBuf[u]] = "pool"
                      /\ bufLen'[unitBuf[u]] = devFuseFDReadSize
                 /\ unitPc[u] = "wgdone" =>
                      /\ unitPc'[u] = "finished"
                      /\ callbacksWG' = callbacksWG - 1
                 /\ unitPc[u] \in {"run", "put", "wgdone"} =>
                      /\ pumpPc' = pumpPc
                      /\ errSent' = errSent
                      /\ errChan' = errChan ]_vars

\* The unit of an empty frame has finished, its buffer is in the pool, and
\* the pump that read it is still reading.
C10_Witness ==
    \E u \in Units :
        /\ u <= nFrames
        /\ frame[u].n = 0
        /\ unitPc[u] = "finished"
        /\ unitLog[u] = << "malformed" >>
        /\ \E b \in BufIds : bufSt[b] = "pool"
        /\ pumpPc[unitBy[u]] = "read"
        /\ callbacksWG = 0

\* The pump's read is of a connection that is not mounted: it can only fail
\* with "operation not permitted".
ReadsEPERM(p) ==
    pumpPc[p] = "read" /\ pumpFd[p] # BadFd /\ conn[pumpFd[p]] = "new"

\* C11: a read that fails with "operation not permitted" sends the pump back
\* to read again, however many times in a row: it spawns no dispatch unit,
\* leaves both wait groups alone, logs nothing and sends nothing on errChan.
C11_TransientRetry ==
    [][ \A p \in Mounts :
          (ReadsEPERM(p) /\ pumpPc'[p] # "read")
            => /\ pumpPc'[p] = "get"
               /\ pumpErr'[p] = pumpErr[p]
               /\ nFrames' = nFrames
               /\ unitPc' = unitPc
               /\ callbacksWG' = callbacksWG
               /\ devFuseFDReaderWG' = devFuseFDReaderWG
               /\ errSent' = errSent
               /\ errChan' = errChan
               /\ errRecvd' = errRecvd
               /\ volLog' = volLog ]_vars

\* The read has failed that way twice in a row and the pump reads again,
\* nothing sent.
C11_Witness ==
    \E p \in Mounts :
        /\ nRetries = 2
        /\ nFrames = 0
        /\ ReadsEPERM(p)
        /\ errSent[p] = << >>
        /\ callbacksWG = 0

\* The pumps in their read loop: started, and not yet ended by a read error.
PumpsReading == { p \in Mounts : pumpPc[p] \in {"get", "read"} }

\* C12: in every reachable state at most one read pump of the volume is
\* active, whatever DoMount and DoUnmount calls the owner has made.
C12_AtMostOnePump == Cardinality(PumpsReading) <= 1

\* Who holds read buffer b: the pool, the pumps, the dispatch units.
PumpHolders(b) == { p \in Mounts : pumpBuf[p] = b }
UnitHolders(b) == { u \in Units : unitBuf[u] = b }
Holders(b) ==
    (IF bufSt[b] = "pool" THEN 1 ELSE 0)
        + Cardinality(PumpHolders(b)) + Cardinality(UnitHolders(b))

\* C13: every read buffer has at most one holder among the pool, the pumps
\* and the dispatch units; so a buffer a dispatch unit holds is neither in
\* the pool nor with a pump until that unit has put it back.
C13_BufferExclusive ==
    \A b \in BufIds :
        /\ Holders(b) <= 1
        /\ bufSt[b] = "held" <=> (PumpHolders(b) \cup UnitHolders(b)) # {}
        /\ bufSt[b] = "pool" => bufLen[b] = devFuseFDReadSize

\* The pump reads into a buffer that came back through the pool, while a
\* dispatch unit works on another one.
C13_Witness ==
    \E b, c \in BufIds : \E p \in Mounts : \E u \in Units :
        /\ b # c
        /\ pumpBuf[p] = b
        /\ bufData[b] # 0
        /\ unitBuf[u] = c
        /\ unitPc[u] = "run"

\* The Len field of a response header, as a byte count.
LenField(hdr) == << hdr[3] + 256 * hdr[4], hdr[1] + 256 * hdr[2] >>

\* C14: the length field of every response header is 16 plus the lengths of
\* the payload segments, which is the byte count handed to the write, also
\* when that total does not fit in 32 bits.
C14_LengthField ==
    \A u \in Units : \A i \in 1..Len(resp[u]) :
        LenField(resp[u][i].hdr) = resp[u][i].span

\* C20: no call of devFuseFDWriter faults before its write is issued,
\* whatever payload segments it is given, an empty one included.
C20_NoFault == \A u \in Units : unitPc[u] # "panicked"

\* The one write issued for frame u failed, or was short.
FailedWrite(u) ==
    Len(resp[u]) = 1 /\ resp[u][1].res \in {"short", "errno"}

\* C15: a call of devFuseFDWriter issues one write and never another; when
\* that write fails or is short, one line is logged (after the ENOSYS line,
\* if any), the pump's state and errChan are left as they were, and the
\* dispatch unit goes on to put its buffer back and call callbacksWG.Done.
C15_WriteFailureLogged ==
    [][ \A u \in Units :
          /\ Len(resp'[u]) <= 1
          /\ (resp'[u] # resp[u] /\ resp'[u][1].res # "ok")
                => /\ unitPc[u] = "run" /\ unitPc'[u] = "put"
                   /\ Len(unitLog'[u]) = 1 +
                        (IF resp'[u][1].hdr[5] = 218 THEN 1 ELSE 0)
                   /\ unitLog'[u][Len(unitLog'[u])]
                        = (IF resp'[u][1].res = "short"
                           THEN "bad bytesWritten" ELSE "bad errno")
                   /\ pumpPc' = pumpPc
                   /\ pumpErr' = pumpErr
                   /\ errSent' = errSent
                   /\ errChan' = errChan
                   /\ errRecvd' = errRecvd
          /\ (FailedWrite(u) /\ unitPc'[u] # unitPc[u])
                => /\ unitPc[u] = "put" =>
                        /\ unitPc'[u] = "wgdone"
                        /\ bufSt'[unitBuf[u]] = "pool"
                   /\ unitPc[u] = "wgdone" =>
                        /\ unitPc'[u] = "finished"
                        /\ callbacksWG' = callbacksWG - 1 ]_vars

\* A unit whose write was short has finished, its buffer put back; the pump
\* reads on and nothing has been sent.
C15_Witness ==
    \E u \in Units :
        /\ FailedWrite(u)
        /\ resp[u][1].res = "short"
        /\ resp[u][1].fdOpen
        /\ unitPc[u] = "finished"
        /\ unitBuf[u] = 0
        /\ pumpPc[unitBy[u]] = "read"
        /\ errSent[unitBy[u]] = << >>

\* The buffers a pump has obtained and not yet read a frame into.
Obtained == { b \in BufIds : \E p \in Mounts : pumpBuf[p] = b }

\* C16: every buffer in the pool, and every buffer a pump has obtained from
\* it, new or reused, has length devFuseFDReadSize, whatever length the read
\* before its release had cut it to.
C16_PoolRoundTrip ==
    \A b \in BufIds :
        (bufSt[b] = "pool" \/ b \in Obtained)
            => bufLen[b] = devFuseFDReadSize

\* A pump has obtained again the buffer that a read had cut to length 0.
C16_Witness ==
    \E b \in Obtained :
        /\ bufData[b] # 0
        /\ bufData[b] <= nFrames
        /\ frame[bufData[b]].n = 0
        /\ unitPc[bufData[b]] = "finished"
        /\ bufLen[b] = devFuseFDReadSize

\* C17: every write devFuseFDWriter issues goes to a descriptor that is
\* open at the time of the write: none follows the close of devFuseFD.
C17_NoWriteAfterClose ==
    \A u \in Units : \A i \in 1..Len(resp[u]) : resp[u][i].fdOpen

\* C18: a buffer obtained from the pool is next put back in the pool: no
\* step of the pump or of a dispatch unit ends with a buffer that was held
\* being neither held nor in the pool, whether the read delivered a frame,
\* was retried on "operation not permitted", or ended the pump.
C18_EveryBufferReturned ==
    [][ \A b \in BufIds :
          bufSt[b] = "held" => bufSt'[b] \in {"held", "pool"} ]_vars

\* C19: devFuseFDReaderWG counts the pumps that have not yet come to their
\* send on errChan, so a pump blocked in that send holds nothing DoUnmount
\* waits for; a DoUnmount that has unmounted and closed returns although
\* nobody receives from errChan; and at its return no dispatch unit is in
\* flight.
C19_ReturnsBeforeReceive ==
    /\ [](devFuseFDReaderWG
            = Cardinality({ p \in Mounts : PumpRunning(p) }))
    /\ (ownerPc = "u_wait") ~> (ownerPc = "idle")
    /\ [][ (ownerPc = "u_wait" /\ ownerPc' = "idle")
              => \A p \in Mounts : InFlightOf(p) = {} ]_vars

\* DoUnmount has returned nil while the pump, which had dispatched a frame,
\* still stands at its send on the unbuffered errChan, nothing received.
C19_Witness ==
    \E p \in Mounts :
        /\ ret = [call |-> "DoUnmount", err |-> "nil"]
        /\ ownerPc = "idle"
        /\ env.errChanCap = 0
        /\ pumpPc[p] = "send"
        /\ errRecvd = << >>
        /\ SpawnedBy(p) # {}

====
